---- MODULE Spec2Model ----
(***************************************************************************)
(* Model of adyen/gateway.py: the field contracts of the three             *)
(* interactions (PaymentFormRequest, PaymentNotification,                  *)
(* PaymentRedirection), their validation, the signing of the outbound      *)
(* request, the interpretation of the two inbound responses, and           *)
(* Gateway._compute_hash.                                                  *)
(*                                                                         *)
(* One behaviour follows one interaction object from the field set its     *)
(* caller supplies to the values its methods return.  The public methods   *)
(* of an object are separate actions: the class does not constrain the     *)
(* order in which a caller invokes them.                                   *)
(***************************************************************************)
EXTENDS Integers, Sequences, FiniteSets, TLC

----------------------------------------------------------------------------
(* Bounds of the model.                                                    *)

\* Largest number of required fields an input leaves absent or falsy.
MaxDefects == 2
\* Largest number of fields an input carries besides the required ones.
MaxExtra == 2
\* Longest key order given to _compute_hash.
MaxKeys == 3

----------------------------------------------------------------------------
(* Python values.  A value is a string, None or an int; an int carries its *)
(* decimal form.                                                           *)

Str(s) == [t |-> "str", s |-> s]
None == [t |-> "none", s |-> ""]
PyInt(decimal) == [t |-> "int", s |-> decimal]

\* bool(v): the empty string, None and 0 are falsy.
Truthy(v) ==
    \/ v.t = "str" /\ v.s # ""
    \/ v.t = "int" /\ v.s # "0"

\* str(v)
PyStr(v) == IF v.t = "none" THEN "None" ELSE v.s

\* `sub in s` on strings.
Contains(sub, s) ==
    \E i \in 1..(Len(s) - Len(sub) + 1) : SubSeq(s, i, i + Len(sub) - 1) = sub

----------------------------------------------------------------------------
(* Python dicts: a sequence of entries [k, v] with distinct keys, in       *)
(* insertion order.                                                        *)

EmptyDict == <<>>

Range(s) == {s[i] : i \in 1..Len(s)}

Has(d, key) == \E i \in 1..Len(d) : d[i].k = key

\* d.get(key, default)
Get(d, key, default) ==
    IF Has(d, key) THEN d[CHOOSE i \in 1..Len(d) : d[i].k = key].v ELSE default

\* d[key] = value: an existing key keeps its position, a new one is appended.
Put(d, key, value) ==
    IF Has(d, key)
    THEN [i \in 1..Len(d) |-> IF d[i].k = key THEN [k |-> key, v |-> value] ELSE d[i]]
    ELSE Append(d, [k |-> key, v |-> value])

RECURSIVE Update(_, _)
\* d.update(other)
Update(d, other) ==
    IF other = <<>> THEN d
    ELSE Update(Put(d, Head(other).k, Head(other).v), Tail(other))

----------------------------------------------------------------------------
(* adyen.constants.Constants, as far as gateway.py uses it.                *)

Constants ==
    [ ADDITIONAL_DATA_PREFIX |-> "additionalData.",
      ALLOWED_METHODS |-> "allowedMethods",
      AUTH_RESULT |-> "authResult",
      BILLING_ADDRESS_TYPE |-> "billingAddressType",
      BLOCKED_METHODS |-> "blockedMethods",
      COUNTRY_CODE |-> "countryCode",
      CURRENCY |-> "currency",
      CURRENCY_CODE |-> "currencyCode",
      DELIVERY_ADDRESS_TYPE |-> "deliveryAddressType",
      EVENT_CODE |-> "eventCode",
      EVENT_DATE |-> "eventDate",
      LIVE |-> "live",
      MERCHANT_ACCOUNT |-> "merchantAccount",
      MERCHANT_ACCOUNT_CODE |-> "merchantAccountCode",
      MERCHANT_REFERENCE |-> "merchantReference",
      MERCHANT_RETURN_DATA |-> "merchantReturnData",
      MERCHANT_RETURN_URL |-> "resURL",
      MERCHANT_SIG |-> "merchantSig",
      OFFSET |-> "offset",
      OPERATIONS |-> "operations",
      ORIGINAL_REFERENCE |-> "originalReference",
      PAYMENT_AMOUNT |-> "paymentAmount",
      PAYMENT_METHOD |-> "paymentMethod",
      PAYMENT_RESULT_AUTHORISED |-> "AUTHORISED",
      PAYMENT_RESULT_REFUSED |-> "REFUSED",
      PSP_REFERENCE |-> "pspReference",
      REASON |-> "reason",
      RECURRING_CONTRACT |-> "recurringContract",
      SESSION_VALIDITY |-> "sessionValidity",
      SHIP_BEFORE_DATE |-> "shipBeforeDate",
      SHOPPER_EMAIL |-> "shopperEmail",
      SHOPPER_LOCALE |-> "shopperLocale",
      SHOPPER_REFERENCE |-> "shopperReference",
      SHOPPER_STATEMENT |-> "shopperStatement",
      SHOPPER_TYPE |-> "shopperType",
      SKIN_CODE |-> "skinCode",
      SUCCESS |-> "success",
      TRUE |-> "true",
      VALUE |-> "value" ]

----------------------------------------------------------------------------
(* The three interaction classes and their field contracts.                *)

PaymentFormRequest == "PaymentFormRequest"
PaymentNotification == "PaymentNotification"
PaymentRedirection == "PaymentRedirection"

Responses == {PaymentNotification, PaymentRedirection}
Classes == {PaymentFormRequest} \cup Responses

REQUIRED_FIELDS(cls) ==
    CASE cls = PaymentFormRequest ->
           << Constants.MERCHANT_ACCOUNT,
              Constants.MERCHANT_REFERENCE,
              Constants.SHOPPER_REFERENCE,
              Constants.SHOPPER_EMAIL,
              Constants.CURRENCY_CODE,
              Constants.PAYMENT_AMOUNT,
              Constants.SESSION_VALIDITY,
              Constants.SHIP_BEFORE_DATE >>
      [] cls = PaymentNotification ->
           << Constants.CURRENCY,
              Constants.EVENT_CODE,
              Constants.EVENT_DATE,
              Constants.LIVE,
              Constants.MERCHANT_ACCOUNT_CODE,
              Constants.MERCHANT_REFERENCE,
              Constants.PAYMENT_METHOD,
              Constants.PSP_REFERENCE,
              Constants.REASON,
              Constants.SUCCESS,
              Constants.VALUE >>
      [] cls = PaymentRedirection ->
           << Constants.AUTH_RESULT,
              Constants.MERCHANT_REFERENCE,
              Constants.MERCHANT_SIG,
              Constants.SHOPPER_LOCALE,
              Constants.SKIN_CODE >>

OPTIONAL_FIELDS(cls) ==
    CASE cls = PaymentFormRequest ->
           << Constants.MERCHANT_SIG,
              Constants.SKIN_CODE,
              Constants.RECURRING_CONTRACT,
              Constants.ALLOWED_METHODS,
              Constants.BLOCKED_METHODS,
              Constants.SHOPPER_STATEMENT,
              Constants.SHOPPER_LOCALE,
              Constants.COUNTRY_CODE,
              Constants.MERCHANT_RETURN_URL,
              Constants.MERCHANT_RETURN_DATA,
              Constants.BILLING_ADDRESS_TYPE,
              Constants.DELIVERY_ADDRESS_TYPE,
              Constants.SHOPPER_TYPE,
              Constants.OFFSET >>
      [] cls = PaymentNotification ->
           << Constants.OPERATIONS,
              Constants.ORIGINAL_REFERENCE >>
      [] cls = PaymentRedirection ->
           << Constants.MERCHANT_RETURN_DATA,
              Constants.PAYMENT_METHOD,
              Constants.PSP_REFERENCE >>

----------------------------------------------------------------------------
(* Exceptions.                                                             *)

NoException == [type |-> "", field |-> ""]
MissingFieldException(field_name) ==
    [type |-> "MissingFieldException", field |-> field_name]
UnexpectedFieldException(field_name) ==
    [type |-> "UnexpectedFieldException", field |-> field_name]
InvalidTransactionException ==
    [type |-> "InvalidTransactionException", field |-> ""]
KeyError(key) == [type |-> "KeyError", field |-> key]

----------------------------------------------------------------------------
(* BaseInteraction.check_fields                                            *)

Min(S) == CHOOSE m \in S : \A n \in S : m <= n

\* The positions of REQUIRED_FIELDS whose field fails `params.get(field_name)`.
MissingAt(required, params) ==
    {i \in 1..Len(required) : ~Truthy(Get(params, required[i], None))}

\* The positions of params.keys() whose key is not in expected_fields.
UnexpectedAt(expected_fields, params) ==
    {i \in 1..Len(params) : params[i].k \notin Range(expected_fields)}

\* check_fields with the two checks in the other order.
check_fields_UnexpectedFirst(cls, params) ==
    LET required == REQUIRED_FIELDS(cls)
        expected_fields == required \o OPTIONAL_FIELDS(cls)
        missing == MissingAt(required, params)
        unexpected == UnexpectedAt(expected_fields, params)
    IN  IF unexpected # {}
        THEN UnexpectedFieldException(params[Min(unexpected)].k)
        ELSE IF missing # {} THEN MissingFieldException(required[Min(missing)])
             ELSE NoException

\* check_fields expecting the required fields alone.
check_fields_RequiredOnly(cls, params) ==
    LET required == REQUIRED_FIELDS(cls)
        missing == MissingAt(required, params)
        unexpected == UnexpectedAt(required, params)
    IN  IF missing # {} THEN MissingFieldException(required[Min(missing)])
        ELSE IF unexpected # {}
             THEN UnexpectedFieldException(params[Min(unexpected)].k)
             ELSE NoException

\* The exception check_fields raises on params, NoException when it returns.
check_fields(cls, params) ==
    LET required == REQUIRED_FIELDS(cls)
        expected_fields == required \o OPTIONAL_FIELDS(cls)
        missing == MissingAt(required, params)
        unexpected == UnexpectedAt(expected_fields, params)
    IN  IF missing # {} THEN MissingFieldException(required[Min(missing)])
        ELSE IF unexpected # {}
             THEN UnexpectedFieldException(params[Min(unexpected)].k)
             ELSE NoException

\* Dropping only the fields whose name starts with the prefix.
DropAdditionalData_StartsWith(params) ==
    LET prefix == Constants.ADDITIONAL_DATA_PREFIX
    IN  SelectSeq(params,
                  LAMBDA e : ~ /\ Len(e.k) >= Len(prefix)
                               /\ SubSeq(e.k, 1, Len(prefix)) = prefix)

\* PaymentNotification.check_fields: the params it keeps before the shared
\* check.
DropAdditionalData(params) ==
    SelectSeq(params,
              LAMBDA e : ~Contains(Constants.ADDITIONAL_DATA_PREFIX, e.k))

\* self.params as the class's check_fields leaves it.
CheckedParams(cls, params) ==
    IF cls = PaymentNotification THEN DropAdditionalData(params) ELSE params

----------------------------------------------------------------------------
(* State.                                                                  *)

VARIABLES
    class,        \* the class of the interaction this behaviour follows
    supplied,     \* the field set the caller passes to the constructor
    callerDict,   \* the caller's dict object, as it is now
    signer,       \* Gateway.signer: what the configured signer answers
    pc,           \* "new", then "aborted" | "signed" | "rendered" for a
                  \* request, "constructed" | "validated" | "invalid" for a
                  \* response
    params,       \* self.params
    lastOp,       \* the method called last
    raised,       \* the exception the last call raised, or NoException
    outcome,      \* the tuple the last call to process() returned, or <<>>
    formFields,   \* the list the last build_form_fields() returned, or <<>>
    signCalls,    \* how often signer.sign has been invoked
    keys,         \* _compute_hash: its keys argument
    hashParams,   \* _compute_hash: its params argument
    secret_key,   \* Gateway.secret_key
    hash_         \* the value _compute_hash returned, "" before the call

hashVars == << keys, hashParams, secret_key, hash_ >>
vars == << class, supplied, callerDict, signer, pc, params, lastOp, raised,
           outcome, formFields, signCalls, keys, hashParams, secret_key,
           hash_ >>

----------------------------------------------------------------------------
(* The signer configured in the gateway's settings.  It is a collaborator  *)
(* of gateway.py: the model takes its answers as inputs.                   *)

Signatures == {"c2lnQQ=="}

\* signature: the signature sign computes; augments: whether sign returns the
\* whole field set with the signature added, or the signature field alone;
\* verifies: what verify answers for the field set of this interaction.
Signers == [signature : Signatures, augments : BOOLEAN, verifies : BOOLEAN]

\* self.client.signer.sign(self.params)
sign(fields) ==
    LET sig == << [k |-> Constants.MERCHANT_SIG, v |-> Str(signer.signature)] >>
    IN  IF signer.augments THEN Update(fields, sig) ELSE sig

\* self.client.signer.verify(self.params)
verify(fields) == signer.verifies

----------------------------------------------------------------------------
(* The field sets a caller supplies: every required field with a value,    *)
(* except that up to MaxDefects of them are absent or falsy, plus up to    *)
(* MaxExtra other fields, in either order.                                 *)

Reverse(s) == [i \in 1..Len(s) |-> s[Len(s) + 1 - i]]

Bounded(S, n) == {T \in SUBSET S : Cardinality(T) <= n}

DefectKinds == {"absent", "empty", "none"}

DefectValue(kind) ==
    CASE kind = "empty" -> Str("")
      [] OTHER -> None

\* Other fields an input may carry: an optional field of the contract, a
\* field of no contract, and two additional-data fields, which are of no
\* contract either.
ExtraPool(cls) ==
    << OPTIONAL_FIELDS(cls)[1],
       "unexpectedField",
       Constants.ADDITIONAL_DATA_PREFIX \o "cardBin",
       "x." \o Constants.ADDITIONAL_DATA_PREFIX \o "y" >>

\* The field whose value the response's process() interprets.
ResultField(cls) ==
    CASE cls = PaymentNotification -> Constants.SUCCESS
      [] cls = PaymentRedirection -> Constants.AUTH_RESULT
      [] OTHER -> Constants.PAYMENT_AMOUNT

ResultValues(cls) ==
    CASE cls = PaymentNotification ->
           {Str(Constants.TRUE), Str("false"), Str("True")}
      [] cls = PaymentRedirection ->
           {Str(Constants.PAYMENT_RESULT_AUTHORISED),
            Str(Constants.PAYMENT_RESULT_REFUSED), Str("PENDING")}
      [] OTHER -> {PyInt("1000")}

FieldSet(cls, defective, kind, extras, rv, reversed) ==
    LET required == REQUIRED_FIELDS(cls)
        names == required \o ExtraPool(cls)
        kept == SelectSeq(names,
                    LAMBDA n : IF n \in Range(required)
                               THEN ~(n \in defective /\ kind = "absent")
                               ELSE n \in extras)
        value(n) == IF n \in defective THEN DefectValue(kind)
                    ELSE IF n = ResultField(cls) THEN rv
                    ELSE Str("x")
        d == [i \in 1..Len(kept) |-> [k |-> kept[i], v |-> value(kept[i])]]
    IN  IF reversed THEN Reverse(d) ELSE d

Inputs(cls) ==
    {EmptyDict} \cup
    { FieldSet(cls, x[1], x[2], x[3], x[4], x[5]) :
        x \in Bounded(Range(REQUIRED_FIELDS(cls)), MaxDefects)
              \X DefectKinds
              \X Bounded(Range(ExtraPool(cls)), MaxExtra)
              \X ResultValues(cls)
              \X BOOLEAN }

\* The signers that differ in what the class asks of them.
SignersFor(cls) ==
    {s \in Signers :
        /\ cls # PaymentFormRequest => s.augments
        /\ cls # PaymentRedirection => s.verifies}

NoHash ==
    /\ keys = <<>>
    /\ hashParams = EmptyDict
    /\ secret_key = ""
    /\ hash_ = ""

Init ==
    /\ class \in Classes
    /\ supplied \in Inputs(class)
    /\ callerDict = supplied
    /\ signer \in SignersFor(class)
    /\ pc = "new"
    /\ params = EmptyDict
    /\ lastOp = ""
    /\ raised = NoException
    /\ outcome = <<>>
    /\ formFields = <<>>
    /\ signCalls = 0
    /\ NoHash

----------------------------------------------------------------------------
(* BaseInteraction.validate and PaymentRedirection.validate: the exception *)
(* validate() raises on an object of class cls holding fields.             *)

\* validate without the signature check.
validate_WithoutVerify(cls, fields) ==
    check_fields(cls, CheckedParams(cls, fields))

validate(cls, fields) ==
    LET exc == check_fields(cls, CheckedParams(cls, fields))
    IN  IF exc # NoException THEN exc
        ELSE IF cls = PaymentRedirection /\ ~verify(fields)
             THEN InvalidTransactionException
             ELSE NoException

----------------------------------------------------------------------------
(* process()                                                               *)

\* Accepting every truthy success value.
NotificationOutcome_Truthy(fields) ==
    LET payment_result == Get(fields, Constants.SUCCESS, None)
        accepted == Truthy(payment_result)
        status == IF accepted THEN Constants.PAYMENT_RESULT_AUTHORISED
                  ELSE Constants.PAYMENT_RESULT_REFUSED
    IN  << accepted, Str(status), fields >>

\* PaymentNotification.process: (accepted, status, self.params)
NotificationOutcome(fields) ==
    LET payment_result == Get(fields, Constants.SUCCESS, None)
        accepted == payment_result = Str(Constants.TRUE)
        status == IF accepted THEN Constants.PAYMENT_RESULT_AUTHORISED
                  ELSE Constants.PAYMENT_RESULT_REFUSED
    IN  << accepted, Str(status), fields >>

\* Deriving the status as the notification does.
RedirectionOutcome_Rederived(fields) ==
    LET payment_result == Get(fields, Constants.AUTH_RESULT, None)
        accepted == payment_result = Str(Constants.PAYMENT_RESULT_AUTHORISED)
        status == IF accepted THEN Constants.PAYMENT_RESULT_AUTHORISED
                  ELSE Constants.PAYMENT_RESULT_REFUSED
    IN  << accepted, Str(status), fields >>

\* PaymentRedirection.process: (accepted, payment_result, self.params)
RedirectionOutcome(fields) ==
    LET payment_result == Get(fields, Constants.AUTH_RESULT, None)
        accepted == payment_result = Str(Constants.PAYMENT_RESULT_AUTHORISED)
    IN  << accepted, payment_result, fields >>

\* The exception process() raises: self.params[AUTH_RESULT] on a field set
\* without that key.
ProcessRaises(cls, fields) ==
    IF cls = PaymentRedirection /\ ~Has(fields, Constants.AUTH_RESULT)
    THEN KeyError(Constants.AUTH_RESULT)
    ELSE NoException

ProcessReturns(cls, fields) ==
    IF ProcessRaises(cls, fields) # NoException THEN <<>>
    ELSE IF cls = PaymentNotification THEN NotificationOutcome(fields)
    ELSE RedirectionOutcome(fields)

----------------------------------------------------------------------------
(* PaymentFormRequest                                                      *)

\* PaymentFormRequest.build_form_fields
build_form_fields(fields) ==
    [i \in 1..Len(fields) |->
        [type |-> "hidden", name |-> fields[i].k, value |-> fields[i].v]]

\* Signing whatever validate() finds.
ReachesSign_Unvalidated(fields) == TRUE

\* Whether PaymentFormRequest.__init__ reaches the signer on fields.
ReachesSign(fields) == validate(PaymentFormRequest, fields) = NoException

\* Leaving the signer's output out of self.params.
ConstructedParams_Unsigned(fields) == fields

\* self.params after PaymentFormRequest.__init__(client, fields).
ConstructedParams(fields) ==
    IF ReachesSign(fields) THEN Update(fields, sign(fields)) ELSE fields

\* PaymentFormRequest(client, params): validate, then sign.  `params or {}`
\* makes no difference to the field set: None and {} both give {}.  A
\* non-empty dict is the caller's own object, which update() changes.
Construct(op) ==
    /\ params' = ConstructedParams(supplied)
    /\ callerDict' = IF supplied = EmptyDict THEN callerDict
                     ELSE ConstructedParams(supplied)
    /\ raised' = validate(PaymentFormRequest, supplied)
    /\ signCalls' = IF ReachesSign(supplied) THEN signCalls + 1 ELSE signCalls
    /\ lastOp' = op
    /\ outcome' = <<>>

PaymentFormRequest_init ==
    /\ class = PaymentFormRequest
    /\ pc = "new"
    /\ Construct("PaymentFormRequest.__init__")
    /\ pc' = IF ReachesSign(supplied) THEN "signed" ELSE "aborted"
    /\ formFields' = <<>>
    /\ UNCHANGED << class, supplied, signer, hashVars >>

PaymentFormRequest_build_form_fields ==
    /\ class = PaymentFormRequest
    /\ pc \in {"signed", "rendered"}
    /\ formFields' = build_form_fields(params)
    /\ pc' = "rendered"
    /\ lastOp' = "PaymentFormRequest.build_form_fields"
    /\ raised' = NoException
    /\ outcome' = <<>>
    /\ UNCHANGED << class, supplied, callerDict, signer, params, signCalls,
                    hashVars >>

\* Gateway.build_payment_form_fields(params):
\* self._build_form_fields(PaymentFormRequest(self, params))
Gateway_build_payment_form_fields ==
    /\ class = PaymentFormRequest
    /\ pc = "new"
    /\ Construct("Gateway.build_payment_form_fields")
    /\ pc' = IF ReachesSign(supplied) THEN "rendered" ELSE "aborted"
    /\ formFields' = IF ReachesSign(supplied)
                     THEN build_form_fields(ConstructedParams(supplied))
                     ELSE <<>>
    /\ UNCHANGED << class, supplied, signer, hashVars >>

----------------------------------------------------------------------------
(* Responses                                                               *)

\* BaseResponse.__init__: keeps the field set, validates nothing.
BaseResponse_init ==
    /\ class \in Responses
    /\ pc = "new"
    /\ params' = supplied
    /\ pc' = "constructed"
    /\ lastOp' = "BaseResponse.__init__"
    /\ raised' = NoException
    /\ UNCHANGED << class, supplied, callerDict, signer, outcome, formFields,
                    signCalls, hashVars >>

ResponseExists == class \in Responses /\ pc \in {"constructed", "validated", "invalid"}

\* validate() on a response.  The notification's check_fields rebinds
\* self.params to the filtered dict before the shared check, whatever the
\* check then finds.
Response_validate ==
    /\ ResponseExists
    /\ params' = CheckedParams(class, params)
    /\ raised' = validate(class, params)
    /\ pc' = IF validate(class, params) = NoException THEN "validated"
             ELSE "invalid"
    /\ lastOp' = "validate"
    /\ outcome' = <<>>
    /\ UNCHANGED << class, supplied, callerDict, signer, formFields,
                    signCalls, hashVars >>

\* process() on a response, called as op.
Process(op) ==
    /\ ResponseExists
    /\ raised' = ProcessRaises(class, params)
    /\ outcome' = ProcessReturns(class, params)
    /\ lastOp' = op
    /\ UNCHANGED << class, supplied, callerDict, signer, pc, params,
                    formFields, signCalls, hashVars >>

Response_process == Process("process")

\* Gateway._process_response(adyen_response, params): adyen_response.process()
Gateway_process_response == Process("Gateway._process_response")

Next ==
    \/ PaymentFormRequest_init
    \/ PaymentFormRequest_build_form_fields
    \/ Gateway_build_payment_form_fields
    \/ BaseResponse_init
    \/ Response_validate
    \/ Response_process
    \/ Gateway_process_response

Spec == Init /\ [][Next]_vars

----------------------------------------------------------------------------
(* Gateway._compute_hash                                                   *)

\* The characters of the keys and values the hash is computed over.
Alphabet == "0123456789abcdefNnoks"

Code(c) == CHOOSE i \in 1..Len(Alphabet) : SubSeq(Alphabet, i, i) = c

HexDigits == "0123456789abcdef"

\* Four hexadecimal digits of a 16-bit number.
Hex(n) ==
    LET digit(d) == SubSeq(HexDigits, d + 1, d + 1)
    IN  digit(n \div 4096) \o digit((n \div 256) % 16)
        \o digit((n \div 16) % 16) \o digit(n % 16)

RECURSIVE Digest(_, _)
\* A 16-bit hash of the string s, started from h.  It stands for SHA-1, of
\* which the model uses only that it is a function of its input.
Digest(h, s) ==
    IF s = "" THEN h
    ELSE Digest((h * 31 + Code(SubSeq(s, 1, 1))) % 65536, SubSeq(s, 2, Len(s)))

\* hmac.new(key, msg, hashlib.sha1).digest(): the hash of the key (outer
\* pad) and of the hash of the key (inner pad) and the message.
hmac_sha1(key, msg) ==
    Digest(Digest(92, key), Hex(Digest(Digest(54, key), msg)))

\* base64.encodebytes(digest).strip().decode('utf-8'): an injective text
\* form of the digest.
Encode(digest) == Hex(digest)

RECURSIVE SigningString_NoneForMissing(_, _)
\* params.get(key) without the '' default.
SigningString_NoneForMissing(ks, fields) ==
    IF ks = <<>> THEN ""
    ELSE PyStr(Get(fields, Head(ks), None))
         \o SigningString_NoneForMissing(Tail(ks), fields)

RECURSIVE SigningString(_, _)
\* ''.join(str(params.get(key, '')) for key in keys)
SigningString(ks, fields) ==
    IF ks = <<>> THEN ""
    ELSE PyStr(Get(fields, Head(ks), Str(""))) \o SigningString(Tail(ks), fields)

_compute_hash(ks, fields) ==
    Encode(hmac_sha1(secret_key, SigningString(ks, fields)))

\* Inputs of _compute_hash: key orders over the first fields of the payment
\* result's signing string, and field sets that give each of them a value or
\* leave it out.
KeyPool ==
    << Constants.AUTH_RESULT, Constants.PSP_REFERENCE,
       Constants.MERCHANT_REFERENCE, Constants.SKIN_CODE >>

KeyOrders ==
    {ks \in UNION {[1..n -> Range(KeyPool)] : n \in 0..MaxKeys} :
        \A i, j \in 1..Len(ks) : i # j => ks[i] # ks[j]}

Absent == [t |-> "absent", s |-> ""]

HashValues == {Str(""), Str("a"), None}

HashFieldSets ==
    { LET kept == SelectSeq(KeyPool, LAMBDA n : f[n] # Absent)
      IN  [i \in 1..Len(kept) |-> [k |-> kept[i], v |-> f[kept[i]]]] :
        f \in [Range(KeyPool) -> HashValues \cup {Absent}] }

SecretKeys == {"k0", "k1"}

InitHash ==
    /\ class = PaymentRedirection
    /\ supplied = EmptyDict
    /\ callerDict = EmptyDict
    /\ signer = [signature |-> "c2lnQQ==", augments |-> TRUE, verifies |-> TRUE]
    /\ pc = "new"
    /\ params = EmptyDict
    /\ lastOp = ""
    /\ raised = NoException
    /\ outcome = <<>>
    /\ formFields = <<>>
    /\ signCalls = 0
    /\ keys \in KeyOrders
    /\ hashParams \in HashFieldSets
    /\ secret_key \in SecretKeys
    /\ hash_ = ""

Gateway_compute_hash ==
    /\ hash_' = _compute_hash(keys, hashParams)
    /\ lastOp' = "Gateway._compute_hash"
    /\ UNCHANGED << class, supplied, callerDict, signer, pc, params, raised,
                    outcome, formFields, signCalls, keys, hashParams,
                    secret_key >>

NextHash == Gateway_compute_hash

SpecHash == InitHash /\ [][NextHash]_vars

----------------------------------------------------------------------------
(* Properties.  They are stated on the field set the caller supplied, with *)
(* the contract spelled out, not through check_fields or validate.         *)

Required == REQUIRED_FIELDS(class)
Expected == Range(REQUIRED_FIELDS(class)) \cup Range(OPTIONAL_FIELDS(class))

\* The required field at position i is absent from d or falsy in it.
MissingIn(d, i) ==
    ~ \E j \in 1..Len(d) : d[j].k = Required[i] /\ Truthy(d[j].v)

AllRequiredPresent(d) == \A i \in 1..Len(Required) : ~MissingIn(d, i)

HasPrefix(name) == Contains(Constants.ADDITIONAL_DATA_PREFIX, name)

\* The last call ran the class's check_fields on the supplied field set.
CheckRan ==
    lastOp \in {"PaymentFormRequest.__init__",
                "Gateway.build_payment_form_fields", "validate"}

\* What check_fields did in the last call: InvalidTransactionException is
\* raised only once check_fields has returned.
CheckFieldsRaised ==
    IF raised = InvalidTransactionException THEN NoException ELSE raised

Processed == lastOp \in {"process", "Gateway._process_response"}

\* C1: PaymentRedirection.validate() returns without error only if the
\* structural check passed and the signer's verify returned true; when the
\* structural check passes and verify returns false it raises
\* InvalidTransactionException.
C1_ValidateGatesOnVerify ==
    (class = PaymentRedirection /\ lastOp = "validate") =>
        LET structural ==
                /\ AllRequiredPresent(supplied)
                /\ \A j \in 1..Len(supplied) : supplied[j].k \in Expected
        IN  /\ raised = NoException => structural /\ signer.verifies
            /\ structural /\ ~signer.verifies =>
                   raised = InvalidTransactionException
            /\ (pc = "validated") = (raised = NoException)

C1_Witness ==
    /\ class = PaymentRedirection
    /\ lastOp = "validate"
    /\ AllRequiredPresent(supplied)
    /\ \A j \in 1..Len(supplied) : supplied[j].k \in Expected
    /\ ~signer.verifies
    /\ raised = InvalidTransactionException

\* C2: an outcome is produced by process() on a response only after
\* validation of that response's field set has succeeded.
C2_OutcomeOnlyAfterValidation ==
    (class \in Responses /\ outcome # <<>>) => pc = "validated"

\* C3: when a required field is absent or falsy, check_fields raises
\* MissingFieldException naming the first such field in the declared order
\* of the required fields, whatever unexpected fields the set also holds.
C3_FirstMissingFieldNamed ==
    (CheckRan /\ ~AllRequiredPresent(supplied)) =>
        \E i \in 1..Len(Required) :
            /\ MissingIn(supplied, i)
            /\ \A j \in 1..(i - 1) : ~MissingIn(supplied, j)
            /\ raised = MissingFieldException(Required[i])

C3_Witness ==
    /\ CheckRan
    /\ Cardinality({i \in 1..Len(Required) : MissingIn(supplied, i)}) = 2
    /\ \E j \in 1..Len(supplied) : supplied[j].k \notin Expected
    /\ supplied[1].k \notin Expected
    /\ raised.type = "MissingFieldException"

\* The result C4 states for check_fields on the field set d.
UnexpectedIffOutsideContract(d) ==
    IF \E j \in 1..Len(d) : d[j].k \notin Expected
    THEN \E j \in 1..Len(d) :
            /\ d[j].k \notin Expected
            /\ \A h \in 1..(j - 1) : d[h].k \in Expected
            /\ CheckFieldsRaised = UnexpectedFieldException(d[j].k)
    ELSE CheckFieldsRaised = NoException

\* C4 as claimed: with all required fields present and truthy, check_fields
\* raises UnexpectedFieldException if and only if some field name of the
\* field set is outside required + optional, naming the first such field in
\* the field set's iteration order.
C4_Original ==
    (CheckRan /\ AllRequiredPresent(supplied)) =>
        UnexpectedIffOutsideContract(supplied)

\* The field set without the fields a notification drops before its check.
WithoutAdditionalData(d) == SelectSeq(d, LAMBDA e : ~HasPrefix(e.k))

\* C4, amended: the same, where for a PaymentNotification the fields whose
\* name contains the additional-data prefix do not count as part of the
\* field set.
C4_UnexpectedFieldNamed ==
    (CheckRan /\ AllRequiredPresent(supplied)) =>
        UnexpectedIffOutsideContract(
            IF class = PaymentNotification THEN WithoutAdditionalData(supplied)
            ELSE supplied)

C4_Witness ==
    /\ class = PaymentNotification
    /\ lastOp = "validate"
    /\ AllRequiredPresent(supplied)
    /\ HasPrefix(supplied[1].k)
    /\ raised = UnexpectedFieldException("unexpectedField")

\* C5: a notification's fields whose name contains the additional-data
\* prefix are removed before the contract check: they never cause
\* UnexpectedFieldException, every other field is kept as it was, and after
\* validate() the field set process() returns holds no such field.
C5_AdditionalDataDropped ==
    (class = PaymentNotification /\ pc \in {"validated", "invalid"}) =>
        /\ \A i \in 1..Len(params) : ~HasPrefix(params[i].k)
        /\ params = WithoutAdditionalData(supplied)
        /\ callerDict = supplied
        /\ lastOp = "validate" =>
               /\ raised.type = "UnexpectedFieldException" => ~HasPrefix(raised.field)
               /\ ( /\ AllRequiredPresent(supplied)
                    /\ \A e \in Range(supplied) : HasPrefix(e.k) \/ e.k \in Expected )
                  => raised = NoException
        /\ (Processed /\ outcome # <<>>) =>
               \A i \in 1..Len(outcome[3]) : ~HasPrefix(outcome[3][i].k)

C5_Witness ==
    /\ class = PaymentNotification
    /\ pc = "validated"
    /\ Processed
    /\ outcome # <<>>
    /\ Cardinality({e \in Range(supplied) : HasPrefix(e.k)}) = 2
    /\ Len(outcome[3]) = Len(supplied) - 2

Constructing ==
    lastOp \in {"PaymentFormRequest.__init__",
                "Gateway.build_payment_form_fields"}

\* C6: when the outbound field set fails validation, the construction of
\* the PaymentFormRequest aborts before the signer is invoked: sign is not
\* called, the field set is as the caller supplied it, and there is no
\* request to render form fields from.
C6_NoSigningOnInvalidRequest ==
    ( /\ class = PaymentFormRequest
      /\ Constructing
      /\ \/ ~AllRequiredPresent(supplied)
         \/ \E j \in 1..Len(supplied) : supplied[j].k \notin Expected )
    =>  /\ raised.type \in {"MissingFieldException", "UnexpectedFieldException"}
        /\ signCalls = 0
        /\ callerDict = supplied
        /\ params = supplied
        /\ pc = "aborted"
        /\ formFields = <<>>

C6_Witness ==
    /\ class = PaymentFormRequest
    /\ lastOp = "Gateway.build_payment_form_fields"
    /\ AllRequiredPresent(supplied)
    /\ Has(supplied, Constants.MERCHANT_SIG)
    /\ raised.type = "UnexpectedFieldException"
    /\ pc = "aborted"

\* The supplied field set with the signer's signature: in place of a
\* signature it already held, at the end otherwise.
SignedSupplied ==
    LET sig == [k |-> Constants.MERCHANT_SIG, v |-> Str(signer.signature)]
    IN  IF \E j \in 1..Len(supplied) : supplied[j].k = Constants.MERCHANT_SIG
        THEN [j \in 1..Len(supplied) |->
                 IF supplied[j].k = Constants.MERCHANT_SIG THEN sig
                 ELSE supplied[j]]
        ELSE supplied \o << sig >>

\* The request exists only validated and signed.
RequestValidatedAndSigned ==
    (class = PaymentFormRequest /\ pc \in {"signed", "rendered"}) =>
        /\ AllRequiredPresent(supplied)
        /\ \A j \in 1..Len(supplied) : supplied[j].k \in Expected
        /\ signCalls = 1
        /\ params = SignedSupplied

\* Form fields are one hidden descriptor per entry of the signed field set,
\* in its order.
RenderedFromSigned ==
    (class = PaymentFormRequest /\ formFields # <<>>) =>
        /\ pc = "rendered"
        /\ Len(formFields) = Len(SignedSupplied)
        /\ \A i \in 1..Len(formFields) :
               formFields[i] = [type |-> "hidden",
                                name |-> SignedSupplied[i].k,
                                value |-> SignedSupplied[i].v]
        /\ \E i \in 1..Len(formFields) :
               /\ formFields[i].name = Constants.MERCHANT_SIG
               /\ formFields[i].value = Str(signer.signature)

\* A request moves along new -> signed -> rendered only (the gateway's
\* build_payment_form_fields takes both steps in one call), or from new to
\* aborted.
RequestPath ==
    (class = PaymentFormRequest /\ pc' # pc) =>
        << pc, pc' >> \in { << "new", "signed" >>, << "signed", "rendered" >>,
                            << "new", "rendered" >>, << "new", "aborted" >> }

\* C7: an outbound request follows the single path constructed ->
\* validated -> signed -> rendered: build_form_fields is reached only on a
\* request whose field set passed validation and was then augmented with
\* the signer's output, and it yields one hidden descriptor per entry of
\* the signed field set, the signature included, in the field set's order.
C7_RequestPathAndRendering ==
    /\ [](RequestValidatedAndSigned /\ RenderedFromSigned)
    /\ [][RequestPath]_vars

C7_Witness ==
    /\ class = PaymentFormRequest
    /\ pc = "rendered"
    /\ lastOp = "PaymentFormRequest.build_form_fields"
    /\ ~Has(supplied, Constants.MERCHANT_SIG)
    /\ Len(formFields) = Len(supplied) + 1
    /\ formFields[Len(formFields)].name = Constants.MERCHANT_SIG

RECURSIVE ConcatenatedValues(_)
\* The values of the first n keys, in the order of the keys, a key without
\* an entry giving the empty string.
ConcatenatedValues(n) ==
    IF n = 0 THEN ""
    ELSE ConcatenatedValues(n - 1) \o
         (IF \E j \in 1..Len(hashParams) : hashParams[j].k = keys[n]
          THEN PyStr(hashParams[CHOOSE j \in 1..Len(hashParams) :
                                    hashParams[j].k = keys[n]].v)
          ELSE "")

\* C8: the signing string of _compute_hash is the concatenation of the
\* listed fields' values in the given order, a field missing from the field
\* set contributing the empty string: the hash of a field set that lacks a
\* field of the order equals the hash of the same field set with that field
\* set to the empty string.
C8_MissingFieldSignsAsEmpty ==
    hash_ # "" =>
        /\ hash_ = Encode(hmac_sha1(secret_key, ConcatenatedValues(Len(keys))))
        /\ \A f \in Range(keys) :
               ~Has(hashParams, f) =>
                   _compute_hash(keys, Put(hashParams, f, Str(""))) = hash_

C8_Witness ==
    /\ hash_ # ""
    /\ Len(keys) = 3
    /\ ~Has(hashParams, keys[2])
    /\ Get(hashParams, keys[1], None) = Str("a")
    /\ Get(hashParams, keys[3], Str("")) = None

\* The value the supplied field set gives the field.
SuppliedValue(field) ==
    supplied[CHOOSE j \in 1..Len(supplied) : supplied[j].k = field].v

\* C9: on a validated notification process() returns accepted = true
\* exactly when the success field equals "true", the status "AUTHORISED"
\* when accepted and "REFUSED" otherwise, and the filtered field set; any
\* other success value gives (false, "REFUSED", fields), not an error.
C9_NotificationOutcome ==
    (class = PaymentNotification /\ pc = "validated" /\ Processed) =>
        LET accepted == SuppliedValue(Constants.SUCCESS) = Str("true")
        IN  /\ raised = NoException
            /\ outcome = << accepted,
                            Str(IF accepted THEN "AUTHORISED" ELSE "REFUSED"),
                            WithoutAdditionalData(supplied) >>

C9_Witness ==
    /\ class = PaymentNotification
    /\ pc = "validated"
    /\ Processed
    /\ SuppliedValue(Constants.SUCCESS) = Str("True")
    /\ outcome[1] = FALSE
    /\ outcome[2] = Str("REFUSED")

\* C10: on a validated and verified redirect process() returns accepted =
\* true exactly when authResult equals "AUTHORISED", the raw authResult
\* value as the status, and the full field set.
C10_RedirectionOutcome ==
    (class = PaymentRedirection /\ pc = "validated" /\ Processed) =>
        /\ raised = NoException
        /\ outcome = << SuppliedValue(Constants.AUTH_RESULT) = Str("AUTHORISED"),
                        SuppliedValue(Constants.AUTH_RESULT),
                        supplied >>

C10_Witness ==
    /\ class = PaymentRedirection
    /\ pc = "validated"
    /\ signer.verifies
    /\ Processed
    /\ outcome = << FALSE, Str("PENDING"), supplied >>

====
